---- MODULE Spec2Model ----
(***************************************************************************)
(* fmtor: formatting adapters for Option<T> (src/src/lib.rs).              *)
(*                                                                         *)
(* Text is a sequence of one-character strings.  An Option<T> is the empty *)
(* sequence (None) or a one-element sequence (Some(v)).                    *)
(***************************************************************************)
EXTENDS Integers, Sequences, FiniteSets

\* ------------------------------------------------------------------ bounds
MaxWidth == 10
MaxPrec == 1
MaxCap == 2
MaxWrappers == 2
MaxFmts == 3
NThreads == 2

\* ------------------------------------------------------------------ values
None == <<>>
Some(v) == <<v>>

NoText == <<>>

\* The nine formatting traits the macro is instantiated for.
Traits ==
    {"Binary", "Debug", "Display", "LowerExp", "LowerHex", "Octal", "Pointer",
     "UpperExp", "UpperHex"}

\* Values of the test table: integers, a raw pointer, and Display-only
\* fallbacks (string slices).
U32(n) == [ty |-> "u32", n |-> n, s |-> NoText]
Ptr(a) == [ty |-> "ptr", n |-> a, s |-> NoText]
Str(s) == [ty |-> "str", n |-> 0, s |-> s]
Unit == [ty |-> "unit", n |-> 0, s |-> NoText]

\* Which trait each value type implements (the `T: $Trait` bound).
Supports(ty, M) ==
    CASE ty = "u32" -> M # "Pointer"
      [] ty = "ptr" -> M \in {"Pointer", "Debug"}
      [] ty = "str" -> M = "Display"
      [] OTHER -> FALSE

\* ------------------------------------------------- core::fmt, as exercised
Rep(c, k) == [i \in 1..k |-> c]

LowerDigits ==
    <<"0", "1", "2", "3", "4", "5", "6", "7", "8", "9", "a", "b", "c", "d", "e", "f">>
UpperDigits ==
    <<"0", "1", "2", "3", "4", "5", "6", "7", "8", "9", "A", "B", "C", "D", "E", "F">>

RECURSIVE Digits(_, _, _)
Digits(n, base, tbl) ==
    IF n < base THEN <<tbl[n + 1]>>
    ELSE Digits(n \div base, base, tbl) \o <<tbl[(n % base) + 1]>>

\* Formatter::padding: fill on either side according to the alignment.
Padding(f, text, padlen, default) ==
    LET al == IF f.align = "Unknown" THEN default ELSE f.align
        pre == CASE al = "Left" -> 0
                 [] al = "Right" -> padlen
                 [] OTHER -> padlen \div 2
    IN Rep(f.fill, pre) \o text \o Rep(f.fill, padlen - pre)

\* Formatter::pad_integral for a non-negative number.
PadIntegral(f, prefix, digits) ==
    LET pre == IF f.alt THEN prefix ELSE NoText
        w == Len(pre) + Len(digits)
    IN IF f.width = None \/ f.width[1] <= w THEN pre \o digits
       ELSE IF f.zero THEN pre \o Rep("0", f.width[1] - w) \o digits
       ELSE Padding(f, pre \o digits, f.width[1] - w, "Right")

\* Formatter::pad: precision truncates, width pads, the zero flag is ignored.
PadStr(f, s) ==
    LET t == IF f.precision = None \/ f.precision[1] >= Len(s) THEN s
             ELSE SubSeq(s, 1, f.precision[1])
    IN IF f.width = None \/ f.width[1] <= Len(t) THEN t
       ELSE Padding(f, t, f.width[1] - Len(t), "Left")

RECURSIVE TrimZeros(_)
TrimZeros(n) == IF n >= 10 /\ n % 10 = 0 THEN TrimZeros(n \div 10) ELSE n

RECURSIVE ZerosTrimmed(_)
ZerosTrimmed(n) == IF n >= 10 /\ n % 10 = 0 THEN 1 + ZerosTrimmed(n \div 10) ELSE 0

RECURSIVE DropDigits(_, _)
DropDigits(n, k) == IF k = 0 THEN n ELSE DropDigits(n \div 10, k - 1)

\* Integer LowerExp/UpperExp: mantissa without trailing zeros, cut or
\* extended to the requested precision, then `e` and the exponent.
ExpText(f, n, e) ==
    LET m0 == TrimZeros(n)
        x0 == ZerosTrimmed(n)
        nd == Len(Digits(m0, 10, LowerDigits)) - 1
        added == IF f.precision = None \/ f.precision[1] <= nd THEN 0
                 ELSE f.precision[1] - nd
        sub == IF f.precision = None \/ f.precision[1] >= nd THEN 0
               ELSE nd - f.precision[1]
        cut == DropDigits(m0, sub)
        up == sub > 0 /\ DropDigits(m0, sub - 1) % 10 >= 5
        m1 == IF up THEN cut + 1 ELSE cut
        carry == up /\ Len(Digits(m1, 10, LowerDigits)) > Len(Digits(cut, 10, LowerDigits))
        m == IF carry THEN m1 \div 10 ELSE m1
        md == Digits(m, 10, LowerDigits)
        x == x0 + sub + (IF carry THEN 1 ELSE 0) + (Len(md) - 1)
        frac == Tail(md) \o Rep("0", added)
        body == <<Head(md)>> \o (IF frac = NoText THEN NoText ELSE <<".">> \o frac)
                    \o <<e>> \o Digits(x, 10, LowerDigits)
        zf == [f EXCEPT !.alt = FALSE]
    IN PadIntegral(zf, NoText, body)

\* 64-bit target: `{:#p}` pads to usize::BITS / 4 + 2 characters.
PtrWidth == (64 \div 4) + 2

\* <*const T as Pointer>::fmt: always `0x`-prefixed lower hex; the alternate
\* flag turns on zero padding to the pointer width.
PointerText(f, a) ==
    LET f1 == IF f.alt
              THEN [f EXCEPT !.zero = TRUE,
                             !.width = IF f.width = None THEN Some(PtrWidth) ELSE f.width]
              ELSE f
        f2 == [f1 EXCEPT !.alt = TRUE]
    IN PadIntegral(f2, <<"0", "x">>, Digits(a, 16, LowerDigits))

Unsupported == <<"<no impl>">>

\* <V as M>::fmt(v, f): the text the formatting system writes for v.
Fmt(M, v, f) ==
    IF ~Supports(v.ty, M) THEN Unsupported
    ELSE CASE v.ty = "str" -> PadStr(f, v.s)
           [] v.ty = "ptr" -> PointerText(f, v.n)
           [] M \in {"Display", "Debug"} -> PadIntegral(f, NoText, Digits(v.n, 10, LowerDigits))
           [] M = "Binary" -> PadIntegral(f, <<"0", "b">>, Digits(v.n, 2, LowerDigits))
           [] M = "Octal" -> PadIntegral(f, <<"0", "o">>, Digits(v.n, 8, LowerDigits))
           [] M = "LowerHex" -> PadIntegral(f, <<"0", "x">>, Digits(v.n, 16, LowerDigits))
           [] M = "UpperHex" -> PadIntegral(f, <<"0", "x">>, Digits(v.n, 16, UpperDigits))
           [] M = "LowerExp" -> ExpText(f, v.n, "e")
           [] OTHER -> ExpText(f, v.n, "E")

\* The sink behind the Formatter: a String (cap = None) never fails; a
\* bounded buffer accepts cap characters and then reports fmt::Error.
Emit(text, cap) ==
    IF cap = None \/ Len(text) <= cap[1]
    THEN [out |-> text, res |-> "Ok"]
    ELSE [out |-> SubSeq(text, 1, cap[1]), res |-> "Err"]

\* ------------------------------------------------------------ the wrappers
\* A closure `F: Fn() -> U`: the caller's producer ("user"), or the closure
\* `|| &self.1` that MaybeFormatOr::fmt builds ("ref").
NoClosure == [kind |-> "none", ret |-> Unit, panics |-> FALSE]
UserClosure(u) == [kind |-> "user", ret |-> u, panics |-> FALSE]
PanicClosure == [kind |-> "user", ret |-> Unit, panics |-> TRUE]
RefClosure(u) == [kind |-> "ref", ret |-> u, panics |-> FALSE]

\* The three wrapper structs.  Field 0, the `&'t Option<T>`, is a shared
\* reference to the caller's optional `opt`; reading it reads `opt`.
MaybeFormat == [kind |-> "MaybeFormat", u |-> Unit, f |-> NoClosure]
MaybeFormatOr(u) == [kind |-> "MaybeFormatOr", u |-> u, f |-> NoClosure]
MaybeFormatOrElse(f) == [kind |-> "MaybeFormatOrElse", u |-> Unit, f |-> f]

\* impl FmtOr<T> for Option<T>
fmt_or_empty == MaybeFormat
fmt_or(u) == MaybeFormatOr(u)
fmt_or_else(f) == MaybeFormatOrElse(f)

\* impl Clone: the same reference, the fallback or producer cloned.
clone(w) == [kind |-> w.kind, u |-> w.u, f |-> w.f]

\* What a shared borrow leaves behind in the optional it points to.
Borrowed_Take(o) == None
Borrowed(o) == o

\* The literal MaybeFormat::fmt hands to fmt_or.
EmptyFallback_Null == Str(<<"N", "o", "n", "e">>)
EmptyFallback == Str(NoText)

\* The else-branch of MaybeFormatOrElse::fmt is the only place self.1 is called.
CallsProducer_Eager(o) == TRUE
CallsProducer(o) == o = None

\* The call of the Some branch: <T as $Trait>::fmt(t, out).
InnerCall_Write(M, f) ==
    [trait |-> M,
     out |-> [fill |-> " ", align |-> "Unknown", width |-> None, precision |-> None,
              alt |-> FALSE, zero |-> FALSE, cap |-> f.cap]]
InnerCall(M, f) == [trait |-> M, out |-> f]

\* The call of the None branch: Display::fmt(&self.1(), out).
FallbackCall_SameTrait(M, f) == [trait |-> M, out |-> f]
FallbackCall(M, f) == [trait |-> "Display", out |-> f]

\* Each fmt body is one call expression: its value is the callee's Result.
Returned_Swallow(res) == "Ok"
Returned(res) == res

\* ----------------------------------------------------- one formatting call
IdleFrame ==
    [pc |-> "idle", self |-> MaybeFormat, w |-> MaybeFormat, M |-> "Display",
     f |-> [fill |-> " ", align |-> "Unknown", width |-> None, precision |-> None,
            alt |-> FALSE, zero |-> FALSE, cap |-> None],
     t |-> None, ret |-> Unit, out |-> NoText, res |-> "Ok", calls |-> 0,
     chain |-> <<>>, under |-> <<>>, overlap |-> FALSE]

\* format!("{:..}", w): the formatting system calls <W as M>::fmt(&w, out).
Enter(w, M, f) == [IdleFrame EXCEPT !.pc = w.kind, !.self = w, !.w = w, !.M = M, !.f = f]

Finished(fr) == fr.pc \in {"returned", "panicked"}
Running(fr) == fr.pc \notin {"idle", "returned", "panicked"}

\* One step of the call: a wrapper's fmt body, the producer, or the
\* underlying formatting implementation.  o is the optional behind field 0.
Step(fr, o) ==
    LET next ==
        CASE fr.pc = "MaybeFormat" ->
               [fr EXCEPT !.pc = "MaybeFormatOr", !.w = fmt_or(EmptyFallback),
                          !.chain = Append(@, "MaybeFormat")]
          [] fr.pc = "MaybeFormatOr" ->
               [fr EXCEPT !.pc = "MaybeFormatOrElse",
                          !.w = fmt_or_else(RefClosure(fr.w.u)),
                          !.chain = Append(@, "MaybeFormatOr")]
          [] fr.pc = "MaybeFormatOrElse" ->
               [fr EXCEPT !.pc = IF CallsProducer(o) THEN "F::call" ELSE "T::fmt",
                          !.t = o,
                          !.chain = Append(@, "MaybeFormatOrElse")]
          [] fr.pc = "F::call" ->
               [fr EXCEPT !.pc = IF fr.w.f.panics THEN "panicked" ELSE "U::fmt",
                          !.ret = fr.w.f.ret,
                          !.calls = @ + (IF fr.w.f.kind = "user" THEN 1 ELSE 0)]
          [] fr.pc = "T::fmt" ->
               LET c == InnerCall(fr.M, fr.f)
                   e == Emit(Fmt(c.trait, fr.t[1], c.out), c.out.cap)
               IN [fr EXCEPT !.pc = "returned", !.out = e.out, !.res = Returned(e.res),
                             !.under = Append(@, [callee |-> "T", trait |-> c.trait,
                                                  res |-> e.res])]
          [] fr.pc = "U::fmt" ->
               LET c == FallbackCall(fr.M, fr.f)
                   e == Emit(Fmt(c.trait, fr.ret, c.out), c.out.cap)
               IN [fr EXCEPT !.pc = "returned", !.out = e.out, !.res = Returned(e.res),
                             !.under = Append(@, [callee |-> "U", trait |-> c.trait,
                                                  res |-> e.res])]
          [] OTHER -> fr
    IN [fr |-> next, opt |-> Borrowed(o)]

\* The whole call, run to its return (or to the producer's panic).
RECURSIVE Run(_, _)
Run(fr, o) ==
    IF ~Running(fr) THEN [fr |-> fr, opt |-> o]
    ELSE CHOOSE r \in {Run(s.fr, s.opt) : s \in {Step(fr, o)}} : TRUE

\* ------------------------------------------------------------------- state
VARIABLES
    T,          \* the optional's element type
    opt,        \* the caller's Option<T>
    owner,      \* what the caller last stored in opt
    wrappers,   \* the live wrappers borrowing opt
    op,         \* the caller's current (last) formatting call
    th,         \* the formatting calls of concurrent threads
    calls,      \* invocations of the caller's producers so far
    absent,     \* formatting calls made on a fmt_or_else wrapper while opt was None
    nfmt        \* formatting calls made so far

vars == <<T, opt, owner, wrappers, op, th, calls, absent, nfmt>>

\* ------------------------------------------------------------------ inputs
Inputs ==
    {[T |-> "u32", opt |-> o] : o \in {None, Some(U32(7)), Some(U32(10)), Some(U32(42))}}
        \cup {[T |-> "ptr", opt |-> o] : o \in {None, Some(Ptr(66))}}

Fallbacks == {Str(NoText), Str(<<"N", "u", "l", "l">>), U32(10)}
Producers == {UserClosure(Str(<<"b", "a", "r">>)), PanicClosure}

Requests ==
    {fmt_or_empty} \cup {fmt_or(u) : u \in Fallbacks} \cup {fmt_or_else(p) : p \in Producers}

Aligns == {"Unknown", "Left", "Right", "Center"}
Widths == {None, Some(MaxWidth \div 2), Some(MaxWidth)}
Precs == {None, Some(MaxPrec)}
Caps == {None, Some(MaxCap)}

\* Every combination of directives, over an unbounded or a bounded sink.
Formatters ==
    [fill : {" ", "0"}, align : Aligns, width : Widths, precision : Precs,
     alt : BOOLEAN, zero : BOOLEAN, cap : Caps]

\* `{}` into a String, and `{:#010}` into a bounded buffer.
Plain == IdleFrame.f
ZeroAltWide ==
    [fill |-> " ", align |-> "Unknown", width |-> Some(MaxWidth), precision |-> None,
     alt |-> TRUE, zero |-> TRUE, cap |-> Some(MaxCap)]
FewFormatters == {Plain, ZeroAltWide}

\* The smaller choice of requests and traits for sequences and threads.
Null == Str(<<"N", "u", "l", "l">>)
Bar == UserClosure(Str(<<"b", "a", "r">>))
FewRequests == {fmt_or_empty, fmt_or(Null), fmt_or_else(Bar), fmt_or_else(PanicClosure)}
FewTraits == {"Debug", "LowerHex", "Pointer"}

NoThreads == [t \in 1..NThreads |-> IdleFrame]

\* ------------------------------------- one formatting call, start to finish
InitFmt ==
    /\ \E i \in Inputs : T = i.T /\ opt = i.opt
    /\ owner = opt
    /\ \E w \in Requests : wrappers = <<w>>
    /\ op = IdleFrame
    /\ th = NoThreads
    /\ calls = 0 /\ absent = 0 /\ nfmt = 0

\* format!("{:..}", w), once, under any trait T implements and any directives.
ApplyFmt ==
    /\ op.pc = "idle"
    /\ \E M \in Traits, f \in Formatters :
         /\ Supports(T, M)
         /\ \E r \in {Run(Enter(wrappers[1], M, f), opt)} :
               /\ op' = r.fr
               /\ opt' = r.opt
               /\ calls' = calls + r.fr.calls
    /\ absent' = absent +
         (IF opt = None /\ wrappers[1].kind = "MaybeFormatOrElse" THEN 1 ELSE 0)
    /\ nfmt' = nfmt + 1
    /\ UNCHANGED <<T, owner, wrappers, th>>

NextFmt == ApplyFmt

SpecFmt == InitFmt /\ [][NextFmt]_vars

\* ------------------------------------------ a caller's sequence of operations
Init ==
    /\ \E i \in Inputs : T = i.T /\ opt = i.opt
    /\ owner = opt
    /\ wrappers = <<>>
    /\ op = IdleFrame
    /\ th = NoThreads
    /\ calls = 0 /\ absent = 0 /\ nfmt = 0

\* opt.fmt_or_empty(), opt.fmt_or(u), opt.fmt_or_else(f)
Request ==
    /\ Len(wrappers) < MaxWrappers
    /\ \E w \in FewRequests : wrappers' = Append(wrappers, w)
    /\ UNCHANGED <<T, opt, owner, op, th, calls, absent, nfmt>>

\* w.clone(), or a copy of w
Clone ==
    /\ Len(wrappers) < MaxWrappers
    /\ \E i \in 1..Len(wrappers) : wrappers' = Append(wrappers, clone(wrappers[i]))
    /\ UNCHANGED <<T, opt, owner, op, th, calls, absent, nfmt>>

\* The wrappers go out of scope: the borrow of opt ends.
Release ==
    /\ wrappers # <<>>
    /\ wrappers' = <<>>
    /\ UNCHANGED <<T, opt, owner, op, th, calls, absent, nfmt>>

\* The caller assigns opt; the borrow checker allows it only with no wrapper live.
SetOpt ==
    /\ wrappers = <<>>
    /\ \E i \in Inputs : i.T = T /\ i.opt # opt /\ opt' = i.opt
    /\ owner' = opt'
    /\ UNCHANGED <<T, wrappers, op, th, calls, absent, nfmt>>

\* format!("{:..}", w) for a live wrapper w.
Format ==
    /\ nfmt < MaxFmts
    /\ \E i \in 1..Len(wrappers), M \in FewTraits, f \in FewFormatters :
         /\ Supports(T, M)
         /\ \E r \in {Run(Enter(wrappers[i], M, f), opt)} :
               /\ op' = r.fr
               /\ opt' = r.opt
               /\ calls' = calls + r.fr.calls
         /\ absent' = absent +
              (IF opt = None /\ wrappers[i].kind = "MaybeFormatOrElse" THEN 1 ELSE 0)
    /\ nfmt' = nfmt + 1
    /\ UNCHANGED <<T, owner, wrappers, th>>

Next == Request \/ Clone \/ Release \/ SetOpt \/ Format

Spec == Init /\ [][Next]_vars

\* ------------------------------------------------- threads sharing wrappers
ConcWrappers == <<fmt_or_empty, fmt_or(Null), fmt_or_else(Bar)>>

InitConc ==
    /\ \E i \in Inputs : T = i.T /\ opt = i.opt
    /\ owner = opt
    /\ wrappers = ConcWrappers
    /\ op = IdleFrame
    /\ th = NoThreads
    /\ calls = 0 /\ absent = 0 /\ nfmt = 0

\* Thread t starts formatting a shared wrapper into a sink of its own.
Start(t) ==
    /\ th[t].pc = "idle"
    /\ \E i \in 1..Len(wrappers), M \in FewTraits :
         /\ Supports(T, M)
         /\ th' = [th EXCEPT ![t] = Enter(wrappers[i], M, ZeroAltWide)]
         /\ absent' = absent +
              (IF opt = None /\ wrappers[i].kind = "MaybeFormatOrElse" THEN 1 ELSE 0)
    /\ nfmt' = nfmt + 1
    /\ UNCHANGED <<T, opt, owner, wrappers, op, calls>>

\* Thread t runs the next step of its call while the others are mid-call.
StepThread(t) ==
    /\ Running(th[t])
    /\ \E s \in {Step(th[t], opt)} :
          /\ th' = [th EXCEPT ![t] = [s.fr EXCEPT !.overlap =
                        @ \/ \E u \in 1..NThreads : u # t /\ Running(th[u])]]
          /\ opt' = s.opt
          /\ calls' = calls + (s.fr.calls - th[t].calls)
    /\ UNCHANGED <<T, owner, wrappers, op, absent, nfmt>>

NextConc == \E t \in 1..NThreads : Start(t) \/ StepThread(t)

SpecConc == InitConc /\ [][NextConc]_vars

\* ------------------------------------------------------------------ claims
\* What the caller sees of a formatting call: how it ended, the text in the
\* sink, and the Result.
Result(fr) == [pc |-> fr.pc, out |-> fr.out, res |-> fr.res]

\* The same, for formatting the value v itself: format!("{:..}", v).
Direct(M, v, f) ==
    [pc |-> "returned", out |-> Emit(Fmt(M, v, f), f.cap).out,
     res |-> Emit(Fmt(M, v, f), f.cap).res]

RequestedWidth(f) == IF f.width = None THEN 0 ELSE f.width[1]

\* C1. Present-value transparency: with Some(v), each of the three wrappers,
\* under every trait and every combination of directives, leaves in the sink
\* exactly what formatting v itself under that trait and those directives
\* leaves, with the same Result.
C1_PresentTransparency ==
    (op.pc # "idle" /\ owner # None) => Result(op) = Direct(op.M, owner[1], op.f)

\* `{:#010x}` of Some(10).fmt_or_empty() is "0x0000000a".
C1_Witness ==
    /\ op.pc = "returned" /\ op.self.kind = "MaybeFormat"
    /\ owner = Some(U32(10)) /\ op.M = "LowerHex"
    /\ op.f.alt /\ op.f.zero /\ op.f.width = Some(MaxWidth) /\ op.f.cap = None
    /\ Len(op.out) = MaxWidth
    /\ SubSeq(op.out, 1, 3) = <<"0", "x", "0">> /\ op.out[MaxWidth] = "a"

\* C2 as stated: None.fmt_or_empty() writes nothing, whatever the directives.
C2_AbsentWritesNothing ==
    (op.pc = "returned" /\ op.self.kind = "MaybeFormat" /\ owner = None)
        => op.out = NoText

\* C2, amended. None.fmt_or_empty() is formatted as the empty string under
\* Display with the caller's directives: nothing without a width, and with a
\* width that many fill characters (cut where the sink ends); the trait asked
\* for plays no part, and no producer of the caller's runs.
C2_AbsentPadsEmptyString ==
    (op.pc # "idle" /\ op.self.kind = "MaybeFormat" /\ owner = None)
        => /\ op.pc = "returned"
           /\ op.calls = 0
           /\ op.out = Emit(Rep(op.f.fill, RequestedWidth(op.f)), op.f.cap).out
           /\ op.res = Emit(Rep(op.f.fill, RequestedWidth(op.f)), op.f.cap).res
           /\ (op.f.width = None => op.out = NoText)

\* `{:0>10p}`-like request on None::<*const _>.fmt_or_empty(): ten fill characters.
C2_Witness ==
    /\ op.pc = "returned" /\ op.self.kind = "MaybeFormat" /\ owner = None
    /\ T = "ptr" /\ op.M = "Pointer"
    /\ op.f.width = Some(MaxWidth) /\ op.f.fill = "0" /\ op.f.cap = None
    /\ Len(op.out) = MaxWidth /\ \A i \in 1..MaxWidth : op.out[i] = "0"

\* C3. Absent-fallback law: None.fmt_or(fb) under any trait leaves exactly
\* what formatting fb under Display with the same directives leaves.
C3_AbsentFallback ==
    (op.pc # "idle" /\ op.self.kind = "MaybeFormatOr" /\ owner = None)
        => Result(op) = Direct("Display", op.self.u, op.f)

\* `{:#x}` of None::<u32>.fmt_or("Null") is "Null".
C3_Witness ==
    /\ op.pc = "returned" /\ op.self = fmt_or(Null) /\ owner = None
    /\ op.M = "LowerHex" /\ op.f.alt /\ op.f.width = None /\ op.f.precision = None
    /\ op.out = <<"N", "u", "l", "l">>

\* C4. Producer-invocation law: formatting opt.fmt_or_else(producer) invokes
\* the producer exactly once when opt is None, and the text is the Display
\* rendering of what it returned; with Some(v) the producer is not invoked,
\* the call returns (a panicking producer does no harm) and the text is v's
\* rendering under the requested trait.
C4_ProducerLaw ==
    (op.pc # "idle" /\ op.self.kind = "MaybeFormatOrElse")
        => /\ owner = None =>
                /\ op.calls = 1 /\ calls = 1
                /\ op.pc = (IF op.self.f.panics THEN "panicked" ELSE "returned")
                /\ op.pc = "returned" => Result(op) = Direct("Display", op.self.f.ret, op.f)
           /\ owner # None =>
                /\ op.calls = 0 /\ calls = 0
                /\ Result(op) = Direct(op.M, owner[1], op.f)

\* Some(42).fmt_or_else(|| panic!()) under `{}` is "42".
C4_Witness ==
    /\ op.pc = "returned" /\ op.self = fmt_or_else(PanicClosure)
    /\ owner = Some(U32(42)) /\ op.M = "Display" /\ op.f.width = None
    /\ op.out = <<"4", "2">> /\ calls = 0

\* C5. Failure propagation: a wrapper's formatting call makes one underlying
\* call and returns that call's Result: Err exactly when the underlying call
\* (the sink) reported Err, Ok exactly when it reported Ok.
C5_FailurePropagation ==
    op.pc = "returned"
        => /\ Len(op.under) = 1
           /\ op.res = op.under[1].res
           /\ op.res = Emit(Fmt(op.under[1].trait,
                                IF owner = None THEN op.ret ELSE owner[1], op.f),
                            op.f.cap).res

\* The sink fails under the inner value's formatter, three wrappers deep.
C5_Witness ==
    /\ op.pc = "returned" /\ op.self.kind = "MaybeFormat" /\ owner # None
    /\ op.res = "Err" /\ op.under[1].res = "Err" /\ Len(op.out) = MaxCap

\* C6. Read-only adapter: whatever wrappers were requested, cloned and
\* formatted, the optional holds what the caller last stored in it.
C6_ReadOnly == opt = owner

\* Two live wrappers, one a copy of the other, after several formatting
\* calls, the last of which failed.
C6_Witness ==
    /\ nfmt >= 2 /\ Len(wrappers) = 2 /\ wrappers[1] = wrappers[2]
    /\ op.pc = "returned" /\ op.res = "Err" /\ opt # None

\* C7. Concurrent formatting: every call a thread finishes ended, wrote and
\* invoked the producer exactly as the same call does run alone on the
\* caller's optional, and no interleaving changes the optional or the
\* wrappers' stored fallbacks.
C7_ConcurrentSafe ==
    /\ opt = owner
    /\ wrappers = ConcWrappers
    /\ \A t \in 1..NThreads :
         Finished(th[t]) =>
           \E r \in {Run(Enter(th[t].self, th[t].M, th[t].f), owner).fr} :
              /\ Result(th[t]) = Result(r)
              /\ th[t].calls = r.calls
              /\ \E i \in 1..Len(wrappers) : th[t].self = wrappers[i]

\* Two threads ran their calls on the fmt_or_else wrapper step by step in
\* between each other's steps; each invoked the producer once.
C7_Witness ==
    /\ owner = None /\ calls = 2
    /\ \A t \in 1..2 :
         /\ th[t].pc = "returned" /\ th[t].overlap
         /\ th[t].self.kind = "MaybeFormatOrElse" /\ th[t].calls = 1
         /\ Len(th[t].out) = MaxCap /\ th[t].out[1] = "b" /\ th[t].res = "Err"

\* C8. Wrapper equivalence: formatting opt.fmt_or_empty() ends, writes and
\* returns as formatting opt.fmt_or("") does, and formatting opt.fmt_or(fb)
\* as formatting opt.fmt_or_else(|| fb) does.
C8_Delegation ==
    /\ (op.pc # "idle" /\ op.self.kind = "MaybeFormat")
          => Result(op) = Result(Run(Enter(fmt_or(Str(NoText)), op.M, op.f), owner).fr)
    /\ (op.pc # "idle" /\ op.self.kind = "MaybeFormatOr")
          => Result(op) =
               Result(Run(Enter(fmt_or_else(UserClosure(op.self.u)), op.M, op.f), owner).fr)

\* fmt_or_empty on None with a width, where the empty fallback is padded.
C8_Witness ==
    /\ op.pc = "returned" /\ op.self.kind = "MaybeFormat" /\ owner = None
    /\ op.f.width = Some(MaxWidth) /\ op.f.cap = None /\ Len(op.out) = MaxWidth
    /\ op.chain = <<"MaybeFormat", "MaybeFormatOr", "MaybeFormatOrElse">>

DelegationChain == <<"MaybeFormat", "MaybeFormatOr", "MaybeFormatOrElse">>
Depth(kind) == CHOOSE i \in 1..3 : DelegationChain[i] = kind

\* C9 as stated: every formatting call runs the fmt bodies from its own
\* wrapper forward along MaybeFormat, MaybeFormatOr, MaybeFormatOrElse and
\* makes exactly one underlying formatting call, never none.
C9_AlwaysOneUnderlyingCall ==
    op.pc # "idle"
        => /\ op.chain = SubSeq(DelegationChain, Depth(op.self.kind), 3)
           /\ op.under = <<[callee |-> IF owner = None THEN "U" ELSE "T",
                            trait |-> IF owner = None THEN "Display" ELSE op.M,
                            res |-> op.res]>>

\* C9, amended. A formatting call runs the fmt bodies from its own wrapper
\* forward along MaybeFormat, MaybeFormatOr, MaybeFormatOrElse, each once.  A
\* call that returns has made exactly one underlying call: T's formatting
\* under the requested trait when the optional is Some, the fallback's
\* Display formatting when it is None.  A call that does not return was ended
\* by the producer's panic on None, before anything was formatted.
C9_SingleUnderlyingCall ==
    op.pc # "idle"
        => /\ op.chain = SubSeq(DelegationChain, Depth(op.self.kind), 3)
           /\ op.pc = "returned" =>
                op.under = <<[callee |-> IF owner = None THEN "U" ELSE "T",
                              trait |-> IF owner = None THEN "Display" ELSE op.M,
                              res |-> op.res]>>
           /\ op.pc = "panicked" => (op.under = <<>> /\ owner = None /\ op.self.f.panics)

\* The longest chain, ending in the fallback's Display under a hex request.
C9_Witness ==
    /\ op.pc = "returned" /\ op.self.kind = "MaybeFormat" /\ owner = None
    /\ op.M = "UpperHex" /\ Len(op.chain) = 3
    /\ op.under[1].callee = "U" /\ op.under[1].trait = "Display"

\* C10. No speculative or cached producer calls: at every point of a
\* caller's sequence of requests, clones, releases, assignments and
\* formatting calls, the producers have been invoked once per formatting
\* call made on a fmt_or_else wrapper while the optional was None, and not
\* otherwise.
C10_CallsMatchAbsentFormats == calls = absent

\* Three formatting calls: two found None and invoked the producer anew each
\* time, then the optional was assigned and the third found Some.
C10_Witness ==
    /\ nfmt = 3 /\ calls = 2 /\ absent = 2
    /\ opt # None /\ op.self.kind = "MaybeFormatOrElse" /\ op.calls = 0
    /\ Len(wrappers) = 2

====
